---- MODULE Spec2Model ----
(***************************************************************************)
(* Model of src/Geoprocessing.py: a Streamlit script (main) that is re-run *)
(* from top to bottom on every user event, keeps one GeoDataFrame in       *)
(* st.session_state.gdf, and calls load_geodata, display_map_with_draw,    *)
(* commit_changes, download_edited_file and convert_and_download in that   *)
(* order.  One action per function call of a script run; the user events   *)
(* that trigger a run are the remaining actions.                           *)
(*                                                                         *)
(* File names are sequences of one-character strings, so that split(".")   *)
(* lower() and endswith() are computed, not assumed.                       *)
(***************************************************************************)
EXTENDS Integers, Sequences, FiniteSets, TLC

VARIABLES
  uploaded_file,    \* value of st.file_uploader (line 34): None or a file
  new_upload,       \* history: the uploader changed since load_geodata last ran
  gdf,              \* st.session_state.gdf (lines 36-37, 42, 50)
  drawn_features,   \* st.session_state['drawn_features'] (lines 48, 52, 198)
  commit_clicked,   \* st.button("Commit Changes") is True in this run (line 47)
  download_format,  \* selectbox of download_edited_file (line 223)
  convert_format,   \* selectbox of convert_and_download (line 249)
  pc,               \* position of the current script run
  scratch,          \* live tempfile.TemporaryDirectory() directories
  load_log,         \* what load_geodata did in this run
  commit_log,       \* what the Commit Changes branch did in this run
  download_log,     \* what download_edited_file did in this run
  convert_log       \* what convert_and_download did in this run

vars == <<uploaded_file, new_upload, gdf, drawn_features, commit_clicked,
          download_format, convert_format, pc, scratch, load_log, commit_log,
          download_log, convert_log>>

-----------------------------------------------------------------------------
(* Bounds *)

\* most features a source file holds
MaxSrcFeatures == 2
\* most features a drawn payload holds
MaxDrawn == 3
\* most top-level entries an uploaded archive unpacks to
MaxEntries == 2

-----------------------------------------------------------------------------
(* Values *)

None == [tag |-> "None"]

NoCRS == "None"
Canonical == "EPSG:4326"
WebMercator == "EPSG:3857"
SourceCRS == {NoCRS, Canonical, WebMercator}

\* str.lower() on the characters that occur in the modelled names
Lower(c) ==
  CASE c = "Z" -> "z"
    [] c = "I" -> "i"
    [] c = "P" -> "p"
    [] c = "S" -> "s"
    [] c = "H" -> "h"
    [] c = "G" -> "g"
    [] c = "D" -> "d"
    [] OTHER -> c

LowerSeq(s) == [i \in 1..Len(s) |-> Lower(s[i])]

Max(S) == CHOOSE x \in S : \A y \in S : y <= x

\* name.split(".")[-1]: the text after the last ".", the whole name without one
LastSegment(s) ==
  LET dots == {i \in 1..Len(s) : s[i] = "."}
  IN IF dots = {} THEN s ELSE SubSeq(s, Max(dots) + 1, Len(s))

\* str.endswith
EndsWith(s, suffix) ==
  /\ Len(s) >= Len(suffix)
  /\ SubSeq(s, Len(s) - Len(suffix) + 1, Len(s)) = suffix

ExtZip == <<"z", "i", "p">>
ExtGeojson == <<"g", "e", "o", "j", "s", "o", "n">>
DotShp == <<".", "s", "h", "p">>

\* names an upload can carry
FileNames ==
  { <<"d", ".", "z", "i", "p">>,
    <<"d", ".", "Z", "I", "P">>,
    <<"d", ".", "g", "e", "o", "j", "s", "o", "n">>,
    <<"d", ".", "G", "e", "o", "J", "S", "O", "N">>,
    <<"z", "i", "p">>,
    <<"g", "e", "o", "j", "s", "o", "n">>,
    <<"d", ".", "z", "i", "p", ".", "t", "x", "t">>,
    <<"d", ".", "z", "i", "p", ".">>,
    <<"d", ".", "s", "h", "p">>,
    <<"d", "z", "i", "p">>,
    <<"d", ".", "g", "e", "o", ".", "j", "s", "o", "n">> }

\* names of the top-level entries an archive can unpack to
EntryNames ==
  { <<"a", ".", "s", "h", "p">>,
    <<"b", ".", "s", "h", "p">>,
    <<"a", ".", "S", "H", "P">>,
    <<"a", ".", "s", "h", "p", ".", "x", "m", "l">> }

\* the sets of top-level entries an archive can unpack to
Contents == {S \in SUBSET EntryNames : Cardinality(S) <= MaxEntries}

\* os.listdir gives the entries in an arbitrary order: every ordering of S
Listings(S) ==
  {l \in [1..Cardinality(S) -> S] : \A e \in S : \E i \in DOMAIN l : l[i] = e}

\* A file object: its name, what its archive unpacks to (a Bundle), the CRS
\* its source declares, how many features it holds, and where reading it
\* raises: "zip" (zipfile.ZipFile, line 75), "read" (gpd.read_file, lines 83
\* and 86), "crs" (to_crs, line 95) or "none".
File(name, entries, crs, n, fault) ==
  [name |-> name, entries |-> entries, crs |-> crs, n |-> n, fault |-> fault]

DefaultEntries == {<<"a", ".", "s", "h", "p">>}

\* file_uploader(type=["zip", "geojson"]): the widget takes a name whose
\* extension, compared without case, is one of the two
UploaderAccepts(name) ==
  \/ EndsWith(LowerSeq(name), <<".">> \o ExtZip) /\ Len(name) > 4
  \/ EndsWith(LowerSeq(name), <<".">> \o ExtGeojson) /\ Len(name) > 8

\* every file object load_geodata can be called with
AnyFiles ==
  {File(nm, c, NoCRS, 1, "none") : nm \in FileNames, c \in Contents}

\* the files a user can put into the uploader
Uploads ==
  LET zip == <<"d", ".", "z", "i", "p">>
      gj == <<"d", ".", "g", "e", "o", "j", "s", "o", "n">>
  IN    {File(nm, DefaultEntries, NoCRS, 1, "none") :
            nm \in {x \in FileNames : UploaderAccepts(x)}}
     \cup {File(zip, c, Canonical, 1, "none") : c \in Contents}
     \cup {File(gj, {}, crs, n, "none") :
            crs \in SourceCRS, n \in 0..MaxSrcFeatures}
     \cup {File(zip, DefaultEntries, crs, 1, "none") : crs \in SourceCRS}
     \cup {File(zip, DefaultEntries, NoCRS, 1, f) : f \in {"zip", "read"}}
     \cup {File(gj, {}, WebMercator, 1, f) : f \in {"read", "crs"}}

-----------------------------------------------------------------------------
(* The dataset: a GeoDataFrame is its rows in order and the CRS of its      *)
(* geometry column.  A row records the CRS its source declared, the CRS its *)
(* coordinates are tagged with, and whether they were transformed.          *)

Feature(geometry, origin, declared, coords_in, transformed) ==
  [geometry |-> geometry, origin |-> origin, declared |-> declared,
   coords_in |-> coords_in, transformed |-> transformed]

GeoDataFrame(features, crs) == [features |-> features, crs |-> crs]

\* gpd.read_file: the rows of the source, tagged with the CRS it declares
ReadFile(file) ==
  GeoDataFrame(
    [i \in 1..file.n |->
       Feature([type |-> "Polygon", coordinates |-> i], "file", file.crs,
               file.crs, FALSE)],
    file.crs)

\* GeoDataFrame.set_crs on a frame without a CRS: the tag only
SetCrs(frame, crs) ==
  GeoDataFrame(
    [i \in DOMAIN frame.features |->
       [frame.features[i] EXCEPT !.coords_in = crs]],
    crs)

\* GeoDataFrame.to_crs: every coordinate transformed into crs
ToCrs(frame, crs) ==
  GeoDataFrame(
    [i \in DOMAIN frame.features |->
       IF frame.features[i].coords_in = crs
       THEN frame.features[i]
       ELSE [frame.features[i] EXCEPT !.coords_in = crs, !.transformed = TRUE]],
    crs)

\* lines 91-95 without the else branch: a declared CRS is kept as it is
NormalizeCrsNoReproject(frame) ==
  IF frame.crs = NoCRS THEN SetCrs(frame, Canonical) ELSE frame

\* lines 91-95
NormalizeCrs(frame) ==
  IF frame.crs = NoCRS THEN SetCrs(frame, Canonical) ELSE ToCrs(frame, Canonical)

-----------------------------------------------------------------------------
(* Scratch directories: with tempfile.TemporaryDirectory() as tmpdir *)

TmpEnter(live, d) == live \cup {d}

\* a directory made with mkdtemp and never removed
TmpExitLeak(live, d) == live

\* leaving the with block removes the directory, on every exit
TmpExit(live, d) == live \ {d}

-----------------------------------------------------------------------------
(* load_geodata *)

LoadResult(class, outcome, frame, listing, selected, acquired, live) ==
  [class |-> class, outcome |-> outcome, gdf |-> frame, listing |-> listing,
   selected |-> selected, acquired |-> acquired, live |-> live]

\* line 70
FileExtension(name) == LowerSeq(LastSegment(name))

\* line 78
ShpFiles(listing) == SelectSeq(listing, LAMBDA f : EndsWith(f, DotShp))

\* line 82 taking the last candidate
PickShpLast(shp_files) == shp_files[Len(shp_files)]

\* line 82
PickShp(shp_files) == shp_files[1]

\* lines 91-97, after a frame was read; to_crs raises on a CRS it cannot use
Normalized(file, class, listing, selected, acquired, live) ==
  IF file.fault = "crs" /\ file.crs # NoCRS
  THEN LoadResult(class, "raised", None, listing, selected, acquired, live)
  ELSE LoadResult(class, "ok", NormalizeCrs(ReadFile(file)), listing, selected,
                  acquired, live)

\* lines 69-97.  listing is what os.listdir(tmpdir) returns; live the scratch
\* directories live at the call.  outcome: "ok", "raised" (an exception
\* leaves the function), "missing_shp" or "unsupported" (None is returned
\* after st.error).
LoadGeodata(file, listing, live) ==
  LET file_extension == FileExtension(file.name)
      tmpdir == "load_tmpdir"
      inside == TmpEnter(live, tmpdir)
      shp_files == ShpFiles(listing)
  IN  IF file_extension = ExtZip
      THEN IF file.fault = "zip"
           THEN LoadResult("Bundle", "raised", None, <<>>, <<>>, TRUE,
                           TmpExit(inside, tmpdir))
           ELSE IF shp_files = <<>>
           THEN LoadResult("Bundle", "missing_shp", None, listing, <<>>, TRUE,
                           TmpExit(inside, tmpdir))
           ELSE IF file.fault = "read"
           THEN LoadResult("Bundle", "raised", None, listing,
                           PickShp(shp_files), TRUE, TmpExit(inside, tmpdir))
           ELSE Normalized(file, "Bundle", listing, PickShp(shp_files), TRUE,
                           TmpExit(inside, tmpdir))
      ELSE IF file_extension = ExtGeojson
      THEN IF file.fault = "read"
           THEN LoadResult("FeatureCollection", "raised", None, <<>>, <<>>,
                           FALSE, live)
           ELSE Normalized(file, "FeatureCollection", <<>>, <<>>, FALSE, live)
      ELSE LoadResult("Unsupported", "unsupported", None, <<>>, <<>>, FALSE,
                      live)

-----------------------------------------------------------------------------
(* Drawn payloads: the values st.session_state['drawn_features'] can hold.  *)
(* kind is the Python type: "None", "str" (the empty string) or "dict"      *)
(* with its keys; features is the value under 'features'.                   *)

Payload(kind, keys, features) ==
  [kind |-> kind, keys |-> keys, features |-> features]

NoPayload == Payload("None", {}, <<>>)

\* one drawn feature: a "Point" the shape() call accepts, a "Circle" whose
\* type it rejects, or a feature without a 'geometry' key ("nogeometry")
DrawnFeature(kind, i) ==
  IF kind = "nogeometry"
  THEN [keys |-> {"type"}, geometry |-> [type |-> "", coordinates |-> 0]]
  ELSE [keys |-> {"type", "geometry"},
        geometry |-> [type |-> kind, coordinates |-> i]]

\* the drawn feature lists: Points mixed with one kind of bad feature
FeatureListsOf(kinds) ==
  UNION {{[i \in 1..n |-> DrawnFeature(k[i], i)] : k \in [1..n -> kinds]} :
         n \in 0..MaxDrawn}

FeatureLists ==
  FeatureListsOf({"Point", "Circle"}) \cup FeatureListsOf({"Point", "nogeometry"})

Payloads ==
  {NoPayload, Payload("str", {}, <<>>), Payload("dict", {}, <<>>),
   Payload("dict", {"type"}, <<>>)}
  \cup {Payload("dict", {"type", "features"}, fl) : fl \in FeatureLists}

\* Python truthiness of a payload
Truthy(p) == p.kind = "dict" /\ p.keys # {}

\* what st.components.v1.html hands back (line 181): nothing, a text that
\* json.loads parses to a payload, or a text it rejects
DrawnData ==
  {[kind |-> "None", value |-> NoPayload], [kind |-> "bad", value |-> NoPayload]}
  \cup {[kind |-> "json", value |-> p] : p \in Payloads}

\* json.loads (line 198)
JsonLoads(d) == [ok |-> d.kind = "json", value |-> d.value]

\* the geometry types shapely.geometry.shape builds
GeometryTypes ==
  {"Point", "LineString", "Polygon", "MultiPoint", "MultiLineString",
   "MultiPolygon"}

\* line 210: feature['geometry'] raises KeyError without the key, shape()
\* raises on a type it does not know
Shape(feature) ==
  IF "geometry" \notin feature.keys
  THEN [ok |-> FALSE, geom |-> feature.geometry]
  ELSE [ok |-> feature.geometry.type \in GeometryTypes,
        geom |-> feature.geometry]

\* line 211: the one-row frame of a drawn geometry
NewRow(geom) == Feature(geom, "drawn", Canonical, Canonical, FALSE)

\* line 212: pd.concat([gdf, new_row], ignore_index=True), crs=gdf.crs
Concat(frame, row) == GeoDataFrame(Append(frame.features, row), frame.crs)

MergeResult(frame, called, announced, added, errors, warned) ==
  [gdf |-> frame, loop |-> called, announced |-> announced, added |-> added,
   errors |-> errors, warned |-> warned]

\* lines 208-215 with the try around the loop: the first failure ends it
RECURSIVE CommitLoopAbort(_, _, _, _, _)
CommitLoopAbort(frame, new_features, i, added, errors) ==
  IF i > Len(new_features)
  THEN MergeResult(frame, TRUE, Len(new_features), added, errors, FALSE)
  ELSE LET s == Shape(new_features[i])
       IN IF s.ok
          THEN CommitLoopAbort(Concat(frame, NewRow(s.geom)), new_features,
                               i + 1, added + 1, errors)
          ELSE MergeResult(frame, TRUE, Len(new_features), added, errors + 1,
                           FALSE)

\* lines 208-215: the loop over new_features from feature i on
RECURSIVE CommitLoop(_, _, _, _, _)
CommitLoop(frame, new_features, i, added, errors) ==
  IF i > Len(new_features)
  THEN MergeResult(frame, TRUE, Len(new_features), added, errors, FALSE)
  ELSE LET s == Shape(new_features[i])
       IN IF s.ok
          THEN CommitLoop(Concat(frame, NewRow(s.geom)), new_features, i + 1,
                          added + 1, errors)
          ELSE CommitLoop(frame, new_features, i + 1, added, errors + 1)

\* lines 204-219 without line 219 on the else path: None is returned
CommitChangesNoReturn(frame, payload) ==
  IF Truthy(payload) /\ "features" \in payload.keys
  THEN CommitLoop(frame, payload.features, 1, 0, 0)
  ELSE MergeResult(None, FALSE, 0, 0, 0, TRUE)

\* lines 204-219.  announced is the count of line 207, added the number of
\* st.success calls (line 213), errors the number of st.error calls (215).
CommitChanges(frame, payload) ==
  IF Truthy(payload) /\ "features" \in payload.keys
  THEN CommitLoop(frame, payload.features, 1, 0, 0)
  ELSE MergeResult(frame, FALSE, 0, 0, 0, TRUE)

-----------------------------------------------------------------------------
(* Export: download_edited_file and convert_and_download *)

Formats == {"GeoJSON", "Shapefile"}

Entry(base, ext) == [base |-> base, ext |-> ext]

\* gdf.to_file(..., driver="ESRI Shapefile") writes the geometry, index,
\* attribute, code page and projection files beside each other
ShapefileParts(base) ==
  {Entry(base, e) : e \in {"shp", "shx", "dbf", "cpg", "prj"}}

\* shutil.make_archive(os.path.join(tmpdir, archive_base), 'zip', tmpdir)
\* (lines 233, 259): the archive file is created in tmpdir first and tmpdir
\* is then walked, so the archive file is one of the files archived
MakeArchive(archive_base, dir_files) ==
  dir_files \cup {Entry(archive_base, "zip")}

ExportResult(format, outcome, filename, entries, frame, acquired, live) ==
  [format |-> format, outcome |-> outcome, filename |-> filename,
   entries |-> entries, data |-> frame, acquired |-> acquired, live |-> live]

\* lines 225-245 and 251-271.  base names the files written, archive_base
\* the archive; write_ok is whether to_file and make_archive succeed.
Export(frame, format, base, archive_base, write_ok, live) ==
  LET tmpdir == "export_tmpdir"
      inside == TmpEnter(live, tmpdir)
  IN  IF format = "GeoJSON"
      THEN ExportResult(format, "ok", Entry(base, "geojson"), {}, frame,
                        FALSE, live)
      ELSE IF ~write_ok
      THEN ExportResult(format, "failed", Entry("", ""), {}, None, TRUE,
                        TmpExit(inside, tmpdir))
      ELSE ExportResult(format, "ok", Entry(archive_base, "zip"),
                        MakeArchive(archive_base, ShapefileParts(base)),
                        frame, TRUE, TmpExit(inside, tmpdir))

\* lines 221-245
DownloadEditedFile(frame, format, write_ok, live) ==
  Export(frame, format, "edited_file", "edited_file_shapefile", write_ok, live)

\* lines 247-271
ConvertAndDownload(frame, format, write_ok, live) ==
  Export(frame, format, "converted", "converted_shapefile", write_ok, live)

-----------------------------------------------------------------------------
(* The session: script runs of main *)

Init ==
  /\ uploaded_file = None
  /\ new_upload = FALSE
  /\ gdf = None
  /\ drawn_features = NoPayload
  /\ commit_clicked = FALSE
  /\ download_format = "GeoJSON"
  /\ convert_format = "GeoJSON"
  /\ pc = "idle"
  /\ scratch = {}
  /\ load_log = None
  /\ commit_log = None
  /\ download_log = None
  /\ convert_log = None

\* a script run starts: the page of the run before is gone; without a file
\* the run ends at line 39
StartRun(file, clicked) ==
  /\ commit_clicked' = clicked
  /\ pc' = IF file = None THEN "idle" ELSE "load"
  /\ load_log' = None
  /\ commit_log' = None
  /\ download_log' = None
  /\ convert_log' = None

\* the user puts a file into the uploader (line 34)
Upload(f) ==
  /\ pc = "idle"
  /\ uploaded_file' = f
  /\ new_upload' = TRUE
  /\ StartRun(f, FALSE)
  /\ UNCHANGED <<gdf, drawn_features, download_format, convert_format, scratch>>

\* the user clears the uploader
RemoveUpload ==
  /\ pc = "idle"
  /\ uploaded_file # None
  /\ uploaded_file' = None
  /\ new_upload' = TRUE
  /\ StartRun(None, FALSE)
  /\ UNCHANGED <<gdf, drawn_features, download_format, convert_format, scratch>>

\* the widgets below line 43 are on the page when the run before got there
ButtonsShown == load_log # None /\ load_log.outcome = "ok"

\* the user clicks Commit Changes (line 47)
ClickCommit ==
  /\ pc = "idle"
  /\ ButtonsShown
  /\ StartRun(uploaded_file, TRUE)
  /\ UNCHANGED <<uploaded_file, new_upload, gdf, drawn_features,
                 download_format, convert_format, scratch>>

\* the user picks the other format in the download selectbox (line 223)
SelectDownloadFormat(fmt) ==
  /\ pc = "idle"
  /\ ButtonsShown
  /\ fmt # download_format
  /\ download_format' = fmt
  /\ StartRun(uploaded_file, FALSE)
  /\ UNCHANGED <<uploaded_file, new_upload, gdf, drawn_features,
                 convert_format, scratch>>

\* the user picks the other format in the convert selectbox (line 249)
SelectConvertFormat(fmt) ==
  /\ pc = "idle"
  /\ ButtonsShown
  /\ fmt # convert_format
  /\ convert_format' = fmt
  /\ StartRun(uploaded_file, FALSE)
  /\ UNCHANGED <<uploaded_file, new_upload, gdf, drawn_features,
                 download_format, scratch>>

\* lines 39-43: load_geodata, and the assignment of what it returns; an
\* exception reaches line 62 before the assignment
LoadStep ==
  /\ pc = "load"
  /\ \E listing \in Listings(uploaded_file.entries) :
       LET r == LoadGeodata(uploaded_file, listing, scratch)
       IN /\ load_log' = r
          /\ scratch' = r.live
          /\ gdf' = IF r.outcome = "raised" THEN gdf ELSE r.gdf
          /\ pc' = IF r.outcome = "ok" THEN "display" ELSE "idle"
  /\ new_upload' = FALSE
  /\ UNCHANGED <<uploaded_file, drawn_features, commit_clicked,
                 download_format, convert_format, commit_log, download_log,
                 convert_log>>

\* lines 44, 99-202: display_map_with_draw; of what it does the session
\* keeps only lines 197-198, and json.loads raising is caught at line 200
DisplayStep ==
  /\ pc = "display"
  /\ \E drawn_data \in DrawnData :
       drawn_features' =
         IF drawn_data.kind # "None" /\ JsonLoads(drawn_data).ok
         THEN JsonLoads(drawn_data).value
         ELSE drawn_features
  /\ pc' = "commit"
  /\ UNCHANGED <<uploaded_file, new_upload, gdf, commit_clicked,
                 download_format, convert_format, scratch, load_log,
                 commit_log, download_log, convert_log>>

CommitLog(payload, before, r) ==
  [payload |-> payload, before |-> before, called |-> r.loop,
   announced |-> r.announced, added |-> r.added, errors |-> r.errors]

\* lines 47-54
CommitStep ==
  /\ pc = "commit"
  /\ IF commit_clicked /\ Truthy(drawn_features)
     THEN LET r == CommitChanges(gdf, drawn_features)
          IN /\ gdf' = r.gdf
             /\ drawn_features' = NoPayload
             /\ commit_log' = CommitLog(drawn_features, gdf, r)
     ELSE /\ UNCHANGED <<gdf, drawn_features>>
          /\ commit_log' =
               IF commit_clicked
               THEN CommitLog(drawn_features, gdf,
                              MergeResult(gdf, FALSE, 0, 0, 0, TRUE))
               ELSE None
  /\ pc' = "download"
  /\ UNCHANGED <<uploaded_file, new_upload, commit_clicked, download_format,
                 convert_format, scratch, load_log, download_log, convert_log>>

\* lines 57-58
DownloadStep ==
  /\ pc = "download"
  /\ \E write_ok \in BOOLEAN :
       LET r == DownloadEditedFile(gdf, download_format, write_ok, scratch)
       IN /\ download_log' = r
          /\ scratch' = r.live
  /\ pc' = "convert"
  /\ UNCHANGED <<uploaded_file, new_upload, gdf, drawn_features,
                 commit_clicked, download_format, convert_format, load_log,
                 commit_log, convert_log>>

\* line 61
ConvertStep ==
  /\ pc = "convert"
  /\ \E write_ok \in BOOLEAN :
       LET r == ConvertAndDownload(gdf, convert_format, write_ok, scratch)
       IN /\ convert_log' = r
          /\ scratch' = r.live
  /\ pc' = "idle"
  /\ UNCHANGED <<uploaded_file, new_upload, gdf, drawn_features,
                 commit_clicked, download_format, convert_format, load_log,
                 commit_log, download_log>>

Next ==
  \/ \E f \in Uploads : Upload(f)
  \/ RemoveUpload
  \/ ClickCommit
  \/ \E fmt \in Formats : SelectDownloadFormat(fmt)
  \/ \E fmt \in Formats : SelectConvertFormat(fmt)
  \/ LoadStep
  \/ DisplayStep
  \/ CommitStep
  \/ DownloadStep
  \/ ConvertStep

Spec == Init /\ [][Next]_vars

-----------------------------------------------------------------------------
(* load_geodata called on its own, with any file object *)

InitLoad ==
  /\ uploaded_file \in AnyFiles
  /\ new_upload = TRUE
  /\ gdf = None
  /\ drawn_features = NoPayload
  /\ commit_clicked = FALSE
  /\ download_format = "GeoJSON"
  /\ convert_format = "GeoJSON"
  /\ pc = "call"
  /\ scratch = {}
  /\ load_log = None
  /\ commit_log = None
  /\ download_log = None
  /\ convert_log = None

CallLoadGeodata ==
  /\ pc = "call"
  /\ \E listing \in Listings(uploaded_file.entries) :
       LET r == LoadGeodata(uploaded_file, listing, scratch)
       IN /\ load_log' = r
          /\ scratch' = r.live
          /\ gdf' = r.gdf
  /\ pc' = "returned"
  /\ new_upload' = FALSE
  /\ UNCHANGED <<uploaded_file, drawn_features, commit_clicked,
                 download_format, convert_format, commit_log, download_log,
                 convert_log>>

NextLoad == CallLoadGeodata

SpecLoad == InitLoad /\ [][NextLoad]_vars

-----------------------------------------------------------------------------
(* Claims *)

Min(S) == CHOOSE x \in S : \A y \in S : x <= y

IsPrefix(s, t) == Len(s) <= Len(t) /\ SubSeq(t, 1, Len(s)) = s

\* C1: while no new upload arrives, every step leaves a Dataset held and
\* keeps the features held before it as a prefix of the features held after.
C1_FeaturesOnlyGrow ==
  [][(gdf # None /\ ~new_upload /\ ~new_upload')
       => (gdf' # None /\ IsPrefix(gdf.features, gdf'.features))]_vars

\* the indices of the drawn features whose geometry shape() builds
Parsed(fl) == {i \in DOMAIN fl : Shape(fl[i]).ok}

\* C2: after a merge of a payload with a 'features' list the Dataset is the
\* Dataset before it, unchanged and in order, followed by one row per
\* feature whose geometry parses, in input order; every other feature is
\* reported once and the features after it are still processed.
C2_MergeAppendsParsedInOrder ==
  (commit_log # None /\ "features" \in commit_log.payload.keys) =>
    LET fl == commit_log.payload.features
        before == commit_log.before.features
        after == gdf.features
        ok == Parsed(fl)
    IN /\ gdf.crs = commit_log.before.crs
       /\ Len(after) = Len(before) + Cardinality(ok)
       /\ SubSeq(after, 1, Len(before)) = before
       /\ \A i \in ok :
            LET row == after[Len(before) + Cardinality({j \in ok : j <= i})]
            IN row.geometry = fl[i].geometry /\ row.origin = "drawn"
       /\ commit_log.added = Cardinality(ok)
       /\ commit_log.errors = Len(fl) - Cardinality(ok)

\* C2 witness: three drawn features, the second invalid, merged into a
\* Dataset that held features: two rows were appended and one error reported
C2_Witness ==
  /\ commit_log # None
  /\ Len(commit_log.payload.features) = 3
  /\ Parsed(commit_log.payload.features) = {1, 3}
  /\ Len(commit_log.before.features) >= 1
  /\ Len(gdf.features) = Len(commit_log.before.features) + 2
  /\ commit_log.errors = 1

\* C3: a failed load (unsupported extension, bundle without a geometry
\* component, parse exception) or a failed export leaves the Dataset the
\* session holds as it was.
C3_FailuresKeepDataset ==
  [][(/\ gdf # None
      /\ \/ pc = "load" /\ load_log' # None /\ load_log'.outcome # "ok"
         \/ pc = "download" /\ download_log' # None
              /\ download_log'.outcome = "failed"
         \/ pc = "convert" /\ convert_log' # None
              /\ convert_log'.outcome = "failed")
       => gdf' = gdf]_vars

\* C4: a file name ending in ".zip" classifies as Bundle, one ending in
\* ".geojson" as FeatureCollection (case ignored), and every other file name
\* as Unsupported, for which load_geodata returns no Dataset and reports.
C4_DetectionByExtension ==
  (pc = "returned") =>
    LET nm == LowerSeq(uploaded_file.name)
        zip == EndsWith(nm, <<".">> \o ExtZip)
        gj == EndsWith(nm, <<".">> \o ExtGeojson)
    IN /\ zip => load_log.class = "Bundle"
       /\ gj => load_log.class = "FeatureCollection"
       /\ (~zip /\ ~gj) =>
            /\ load_log.class = "Unsupported"
            /\ load_log.outcome = "unsupported"
            /\ gdf = None

\* payloads that ask for nothing: absent, the empty string, a dict without
\* 'features', a feature collection with zero features
IsNoOp(p) == p.kind # "dict" \/ "features" \notin p.keys \/ p.features = <<>>

\* C5: a merge of a payload that asks for nothing returns the Dataset it was
\* given, same features, same order, same crs, and appends 0 features, in
\* commit_changes and in the Commit Changes branch of main.
C5_NoOpMergeLeavesDataset ==
  /\ (commit_log # None /\ IsNoOp(commit_log.payload)) =>
       (gdf = commit_log.before /\ commit_log.added = 0)
  /\ (gdf # None) =>
       \A p \in {q \in Payloads : IsNoOp(q)} :
         CommitChanges(gdf, p).gdf = gdf /\ CommitChanges(gdf, p).added = 0

\* C5 witness: commit_changes ran on an empty feature collection over a
\* Dataset that holds features
C5_Witness ==
  /\ commit_log # None
  /\ commit_log.called
  /\ commit_log.payload.features = <<>>
  /\ gdf # None
  /\ Len(gdf.features) >= 1

\* C6: a held Dataset has the canonical crs and every row has it; a row read
\* from a source without a CRS is tagged and not transformed, a row read
\* from a source with a CRS is reprojected, and a merge keeps the crs.
C6_CanonicalCrs ==
  (gdf # None) =>
    /\ gdf.crs = Canonical
    /\ \A i \in DOMAIN gdf.features :
         LET f == gdf.features[i]
         IN /\ f.coords_in = Canonical
            /\ f.origin = "file" =>
                 (f.transformed <=> f.declared \notin {NoCRS, Canonical})
            /\ f.origin = "drawn" => ~f.transformed

\* C6 witness: a Dataset read from a source declaring another CRS, with a
\* drawn feature merged into it
C6_Witness ==
  /\ gdf # None
  /\ \E i \in DOMAIN gdf.features :
       gdf.features[i].origin = "file" /\ gdf.features[i].declared = WebMercator
  /\ \E i \in DOMAIN gdf.features : gdf.features[i].origin = "drawn"

C8_ArchiveSharesOneBasename ==
  \A log \in {download_log, convert_log} :
    (log # None /\ log.format = "Shapefile" /\ log.outcome = "ok") =>
      /\ log.filename \in {Entry("edited_file_shapefile", "zip"),
                           Entry("converted_shapefile", "zip")}
      /\ {"shp", "dbf", "shx"} \subseteq {e.ext : e \in log.entries}
      /\ \E b \in {e.base : e \in log.entries} :
           \A e \in log.entries : e.base = b

\* C9: the count a merge reports is the number of features it appended.
C9_ReportedCountIsAppended ==
  (commit_log # None /\ commit_log.called) =>
    commit_log.announced =
      Len(gdf.features) - Len(commit_log.before.features)

\* C10: no scratch directory is live when an operation has returned,
\* returned early or raised.
C10_ScratchReleased ==
  /\ scratch = {}
  /\ \A log \in {load_log, download_log, convert_log} :
       log # None => log.live = {}

\* C10 witness: a run that unpacked a bundle, failed one bundle export and
\* finished the other, each in a scratch directory
C10_Witness ==
  /\ pc = "idle"
  /\ load_log # None /\ load_log.acquired /\ load_log.outcome = "ok"
  /\ download_log # None /\ download_log.acquired
  /\ download_log.outcome = "failed"
  /\ convert_log # None /\ convert_log.acquired /\ convert_log.outcome = "ok"

====
